---- MODULE Spec2Model ----
(***************************************************************************)
(* Model of systemd-udp-proxy: the ingress dispatcher (primary rx_loop),   *)
(* the session cache behind a tokio RwLock, the per-session tx/rx loops    *)
(* with their spawned wrapper tasks, the reply aggregator (primary         *)
(* tx_loop), the error classifier and main's join of the two primary tasks.*)
(***************************************************************************)
EXTENDS Integers, Sequences, FiniteSets, TLC

(* ---------------------------- bounds ----------------------------------- *)
MaxDatagrams == 2      \* reads the dispatcher completes on the ingress socket
MaxSessions == 2       \* successful Session::new calls
MaxRxEvents == 1       \* completed (non-fatal) receives on egress sockets

Sources == {"s1", "s2"}          \* SessionSource values seen on the ingress socket
Sessions == 1..MaxSessions
DgIds == 1..MaxDatagrams
Payloads == {"x", "y"}           \* bytes a backend reply may carry
Msgs == {"m1", "m2", "m3", "m4"} \* payload of an io::Error (its message)

(* std::io::ErrorKind, the kinds the classifier names plus representatives *)
(* of the wildcard arm.                                                    *)
ErrorKinds ==
  {"NotFound", "PermissionDenied", "ConnectionRefused", "AddrInUse",
   "AddrNotAvailable", "InvalidInput", "Unsupported", "OutOfMemory",
   "Interrupted", "WouldBlock", "TimedOut", "ConnectionAborted", "Other"}

(* Error kinds the sockets of the running proxy produce in the model: one  *)
(* fatal and one recoverable; on an egress send also the kind the tx loop  *)
(* special-cases.                                                          *)
IoErrKinds == {"PermissionDenied", "Interrupted"}
SendErrKinds == IoErrKinds \cup {"ConnectionRefused"}

VARIABLES
  dpc,        \* dispatcher position: recv, new, insert, push, remove, done
  dsrc,       \* source of the datagram the dispatcher is handling
  dbuf,       \* id of that datagram (0 = none)
  dsid,       \* session built by Session::new, not yet inserted (0 = none)
  dResult,    \* "none" or the ErrorKind rx_loop returned
  lock,       \* holder of the RwLock write guard: "free" or "disp"
  cache,      \* SessionCache: source -> session id (0 = no entry)
  nextSid,    \* sessions constructed so far
  nextDg,     \* ingress reads completed so far
  sessSrc,    \* Session.source
  txpc,       \* spawned tx task: none, recv, exit (loop returned Ok),
              \* failed (loop returned Err), done
  rxpc,       \* spawned rx task: none, recv, exit, failed, done
  queue,      \* per-session unbounded channel contents (datagram ids)
  replyChan,  \* reply channel contents
  nRx,        \* egress receives completed
  aggpc,      \* aggregator: run, done
  aggResult,  \* "none", "Ok" or the ErrorKind tx_loop returned
  mainpc,     \* main: await_rx, await_tx, exited
  exitErr,    \* <<task, kind>> main returned, or <<"none", "none">>
  dgSid,      \* history: session whose queue the datagram was pushed onto
  fate,       \* history: what became of each datagram (read, nosession,
              \* pushfail, queued, discarded, or the outcome of its send)
  attempts,   \* history: number of destination.send calls per datagram
  sentLog,    \* history: datagrams sent successfully on egress sockets, in order
  written,    \* history: set of datagrams written on the ingress socket
  cls         \* classifier harness: input error and resulting action

dispVars == <<dpc, dsrc, dbuf, dsid, dResult>>
cacheVars == <<lock, cache>>
cntVars == <<nextSid, nextDg>>
txVars == <<txpc, queue>>
rxVars == <<rxpc>>
aggVars == <<replyChan, aggpc, aggResult>>
mainVars == <<mainpc, exitErr>>
dgHist == <<dgSid, fate, attempts, sentLog>>

vars == <<dispVars, cacheVars, cntVars, sessSrc, txVars, rxVars, aggVars, nRx,
          mainVars, dgHist, written, cls>>

(* ------------------------- error classifier ---------------------------- *)
handle_io_error_mut(kind) ==
  IF kind \in {"NotFound", "PermissionDenied", "ConnectionRefused", "AddrInUse",
               "AddrNotAvailable", "Unsupported", "OutOfMemory"}
  THEN "Terminate" ELSE "Continue"

handle_io_error(kind) ==
  IF kind \in {"NotFound", "PermissionDenied", "ConnectionRefused", "AddrInUse",
               "AddrNotAvailable", "InvalidInput", "Unsupported", "OutOfMemory"}
  THEN "Terminate" ELSE "Continue"

(* The error carried by ErrorAction::Terminate(err): the argument itself.  *)
TerminateErr(err) == err

(* ------------------------------ helpers -------------------------------- *)
Running == mainpc # "exited"

(* HashMap::remove(&source) *)
Remove_all(c, s) == [t \in Sources |-> 0]

Remove(c, s) == [c EXCEPT ![s] = 0]

(* The UnboundedSender of a session lives in its cache entry, or in the    *)
(* dispatcher's local `tx` between the spawns and entry.insert.            *)
SenderAlive(sid) ==
  \/ \E s \in Sources : cache[s] = sid
  \/ dpc = "insert" /\ dsid = sid

(* The UnboundedReceiver is owned by the tx_loop future. *)
ReceiverAlive(sid) == txpc[sid] = "recv"

(* What the match on destination.send's result does: the datagram is sent, *)
(* the refusal is swallowed, the error is dropped by the classifier, or    *)
(* the loop returns the error (which the task only logs).                  *)
TxSendDisposition_noswallow(outcome) ==
  IF outcome = "Ok" THEN "sent"
  ELSE IF handle_io_error(outcome) = "Terminate" THEN "fatal" ELSE "dropped"

TxSendDisposition(outcome) ==
  IF outcome = "Ok" THEN "sent"
  ELSE IF outcome = "ConnectionRefused" THEN "refused"
  ELSE IF handle_io_error(outcome) = "Terminate" THEN "fatal" ELSE "dropped"

(* Queue left behind by UnboundedReceiver::recv returning Some(head). *)
Dequeue_peek(q) == q

Dequeue(q) == Tail(q)

RECURSIVE SeqToSet(_)
SeqToSet(q) == IF q = <<>> THEN {} ELSE {Head(q)} \cup SeqToSet(Tail(q))

(* -------------------------------- Init --------------------------------- *)
NoSessions ==
  /\ sessSrc = [i \in Sessions |-> "none"]
  /\ txpc = [i \in Sessions |-> "none"]
  /\ rxpc = [i \in Sessions |-> "none"]
  /\ queue = [i \in Sessions |-> <<>>]

NoError == [kind |-> "none", msg |-> "none"]

InitProxy ==
  /\ dpc = "recv" /\ dsrc = "none" /\ dbuf = 0 /\ dsid = 0 /\ dResult = "none"
  /\ lock = "free"
  /\ cache = [s \in Sources |-> 0]
  /\ nextSid = 0 /\ nextDg = 0
  /\ NoSessions
  /\ replyChan = <<>> /\ nRx = 0
  /\ aggpc = "run" /\ aggResult = "none"
  /\ mainpc = "await_rx" /\ exitErr = <<"none", "none">>
  /\ dgSid = [d \in DgIds |-> 0]
  /\ fate = [d \in DgIds |-> "none"]
  /\ attempts = [d \in DgIds |-> 0]
  /\ sentLog = <<>> /\ written = {}

Init ==
  /\ InitProxy
  /\ cls = [in |-> NoError, action |-> "none", out |-> NoError]

(* ----------------------------- dispatcher ------------------------------ *)
(* match session_cache.entry(source): the Vacant arm builds a session, the *)
(* Occupied arm takes the producer handle of the existing entry.           *)
EntryArm_vacant(c, s) == "new"

EntryArm(c, s) == IF c[s] = 0 THEN "new" ELSE "push"

(* rx_socket.recv_buf_from returns Ok((len, source)); sessions.write()     *)
(* is granted (no other guard is alive: session tasks take and drop theirs *)
(* within one statement); session_cache.entry(source) is matched.          *)
DispatcherRecvOk(s) ==
  /\ Running /\ dpc = "recv" /\ nextDg < MaxDatagrams /\ lock = "free"
  /\ nextDg' = nextDg + 1
  /\ lock' = "disp"
  /\ dpc' = EntryArm(cache, s)
  /\ dsrc' = s /\ dbuf' = nextDg + 1
  /\ fate' = [fate EXCEPT ![nextDg + 1] = "read"]
  /\ UNCHANGED <<dsid, dResult, cache, nextSid, sessSrc, txVars, rxVars, aggVars,
                 nRx, mainVars, dgSid, attempts, sentLog, written, cls>>

(* recv_buf_from returns Err and the error is returned unclassified *)
DispatcherRecvErr_unclassified(kind) ==
  /\ Running /\ dpc = "recv"
  /\ dpc' = "done" /\ dResult' = kind
  /\ UNCHANGED <<dsrc, dbuf, dsid, cacheVars, cntVars, sessSrc, txVars, rxVars,
                 aggVars, nRx, mainVars, dgHist, written, cls>>

(* rx_socket.recv_buf_from returns Err: classify, return or continue.  A   *)
(* read that ended in a recoverable error is counted among the reads and   *)
(* recorded in the history as "readerr".                                   *)
DispatcherRecvErr(kind) ==
  /\ Running /\ dpc = "recv"
  /\ handle_io_error(kind) = "Continue" => nextDg < MaxDatagrams
  /\ IF handle_io_error(kind) = "Terminate"
     THEN /\ dpc' = "done" /\ dResult' = kind
          /\ UNCHANGED <<nextDg, fate>>
     ELSE /\ nextDg' = nextDg + 1
          /\ fate' = [fate EXCEPT ![nextDg + 1] = "readerr"]
          /\ UNCHANGED <<dpc, dResult>>
  /\ UNCHANGED <<dsrc, dbuf, dsid, cacheVars, nextSid, sessSrc, txVars, rxVars,
                 aggVars, nRx, mainVars, dgSid, attempts, sentLog, written, cls>>

(* Session::new fails and the write guard outlives the `continue` *)
DispatcherNewFail_guarded ==
  /\ Running /\ dpc = "new"
  /\ dpc' = "recv"
  /\ fate' = [fate EXCEPT ![dbuf] = "nosession"]
  /\ dsrc' = "none" /\ dbuf' = 0
  /\ UNCHANGED <<dsid, dResult, cacheVars, cntVars, sessSrc, txVars, rxVars,
                 aggVars, nRx, mainVars, dgSid, attempts, sentLog, written, cls>>

(* Session::new fails: log, `continue` drops the write guard *)
DispatcherNewFail ==
  /\ Running /\ dpc = "new"
  /\ dpc' = "recv" /\ lock' = "free"
  /\ fate' = [fate EXCEPT ![dbuf] = "nosession"]
  /\ dsrc' = "none" /\ dbuf' = 0
  /\ UNCHANGED <<dsid, dResult, cache, cntVars, sessSrc, txVars, rxVars, aggVars,
                 nRx, mainVars, dgSid, attempts, sentLog, written, cls>>

(* Session::new succeeds; channel created; tx and rx tasks spawned *)
DispatcherSpawn ==
  /\ Running /\ dpc = "new" /\ nextSid < MaxSessions
  /\ nextSid' = nextSid + 1
  /\ dsid' = nextSid + 1
  /\ sessSrc' = [sessSrc EXCEPT ![nextSid + 1] = dsrc]
  /\ txpc' = [txpc EXCEPT ![nextSid + 1] = "recv"]
  /\ rxpc' = [rxpc EXCEPT ![nextSid + 1] = "recv"]
  /\ dpc' = "insert"
  /\ UNCHANGED <<dsrc, dbuf, dResult, cacheVars, nextDg, queue, aggVars, nRx,
                 mainVars, dgHist, written, cls>>

(* entry.insert((tx, session)) *)
DispatcherInsert ==
  /\ Running /\ dpc = "insert"
  /\ cache' = [cache EXCEPT ![dsrc] = dsid]
  /\ dsid' = 0
  /\ dpc' = "push"
  /\ UNCHANGED <<dsrc, dbuf, dResult, lock, cntVars, sessSrc, txVars, rxVars,
                 aggVars, nRx, mainVars, dgHist, written, cls>>

(* session_channel_tx.send(buf): on Ok the block ends and the write guard  *)
(* is dropped; on Err the guard is still alive in the is_err() branch.     *)
DispatcherPush ==
  /\ Running /\ dpc = "push"
  /\ LET sid == cache[dsrc] IN
     IF ReceiverAlive(sid)
     THEN /\ queue' = [queue EXCEPT ![sid] = Append(@, dbuf)]
          /\ fate' = [fate EXCEPT ![dbuf] = "queued"]
          /\ dgSid' = [dgSid EXCEPT ![dbuf] = sid]
          /\ dpc' = "recv" /\ lock' = "free"
          /\ dsrc' = "none" /\ dbuf' = 0
     ELSE /\ fate' = [fate EXCEPT ![dbuf] = "pushfail"]
          /\ dpc' = "remove"
          /\ UNCHANGED <<queue, dgSid, lock, dsrc, dbuf>>
  /\ UNCHANGED <<dsid, dResult, cache, cntVars, sessSrc, txpc, rxVars, aggVars,
                 nRx, mainVars, attempts, sentLog, written, cls>>

(* ---------------- RwLock::write().await.remove(&source) ---------------- *)
(* The statement every exiting session task runs, and the dispatcher after *)
(* a failed push.  A task is <<session id, "tx" | "rx">> or <<0, "disp">>. *)
Tasks == (Sessions \X {"tx", "rx"}) \cup {<<0, "disp">>}

(* The task is at its sessions.write().await *)
Requesting(task) ==
  IF task[2] = "disp" THEN dpc = "remove"
  ELSE IF task[2] = "tx" THEN txpc[task[1]] \in {"exit", "failed"}
  ELSE rxpc[task[1]] \in {"exit", "failed"}

(* The key the task passes to remove: the `source` captured by its closure *)
KeyOf(task) == IF task[2] = "disp" THEN dsrc ELSE sessSrc[task[1]]

(* RwLock::write() resolves: no guard is alive. *)
Granted_unlocked(task) == TRUE

Granted(task) == lock = "free"

(* The write guard is granted only when no other guard is alive; the       *)
(* temporary guard is dropped at the end of the statement, and a session   *)
(* task ends there.                                                        *)
WriteRemove(task) ==
  /\ Running /\ Requesting(task) /\ Granted(task)
  /\ cache' = Remove(cache, KeyOf(task))
  /\ txpc' = [i \in Sessions |-> IF task = <<i, "tx">> THEN "done" ELSE txpc[i]]
  /\ rxpc' = [i \in Sessions |-> IF task = <<i, "rx">> THEN "done" ELSE rxpc[i]]
  /\ dpc' = IF task[2] = "disp" THEN "recv" ELSE dpc
  /\ dsrc' = IF task[2] = "disp" THEN "none" ELSE dsrc
  /\ dbuf' = IF task[2] = "disp" THEN 0 ELSE dbuf
  /\ UNCHANGED <<dsid, dResult, lock, cntVars, sessSrc, queue, aggVars, nRx,
                 mainVars, dgHist, written, cls>>

(* --------------------------- Session::tx_loop -------------------------- *)
(* timeout(duration, source_channel.recv()) yields Ok(Some(data));         *)
(* self.destination.send(&data) completes with `outcome` ("Ok" or an       *)
(* ErrorKind) and the match disposes of the datagram.  A returned error    *)
(* drops the receiver and what is still queued.                            *)
TxSend(sid, outcome) ==
  /\ Running /\ txpc[sid] = "recv" /\ queue[sid] # <<>>
  /\ LET d == Head(queue[sid])
         rest == Dequeue(queue[sid])
         disp == TxSendDisposition(outcome) IN
     /\ attempts' = [attempts EXCEPT ![d] = @ + 1]
     /\ sentLog' = IF disp = "sent" THEN Append(sentLog, d) ELSE sentLog
     /\ IF disp = "fatal"
        THEN /\ txpc' = [txpc EXCEPT ![sid] = "failed"]
             /\ queue' = [queue EXCEPT ![sid] = <<>>]
             /\ fate' = [e \in DgIds |->
                           IF e = d THEN outcome
                           ELSE IF e \in SeqToSet(rest) THEN "discarded" ELSE fate[e]]
        ELSE /\ queue' = [queue EXCEPT ![sid] = rest]
             /\ fate' = [fate EXCEPT ![d] = outcome]
             /\ UNCHANGED txpc
  /\ UNCHANGED <<dispVars, cacheVars, cntVars, sessSrc, rxVars, aggVars, nRx,
                 mainVars, dgSid, written, cls>>

(* ... yields Err(Elapsed): nothing was queued before the deadline (recv   *)
(* is polled first, so a queued buffer or a closed channel wins); the loop *)
(* ends, tx_loop returns Ok(()) and the receiver is dropped.               *)
TxTimeout(sid) ==
  /\ Running /\ txpc[sid] = "recv" /\ queue[sid] = <<>> /\ SenderAlive(sid)
  /\ txpc' = [txpc EXCEPT ![sid] = "exit"]
  /\ UNCHANGED <<dispVars, cacheVars, cntVars, sessSrc, queue, rxVars, aggVars,
                 nRx, mainVars, dgHist, written, cls>>

(* ... yields Ok(None): every sender is gone and the queue is drained; the *)
(* loop ends and tx_loop returns Ok(()).                                   *)
TxClosed(sid) ==
  /\ Running /\ txpc[sid] = "recv" /\ queue[sid] = <<>> /\ ~SenderAlive(sid)
  /\ txpc' = [txpc EXCEPT ![sid] = "exit"]
  /\ UNCHANGED <<dispVars, cacheVars, cntVars, sessSrc, queue, rxVars, aggVars,
                 nRx, mainVars, dgHist, written, cls>>

(* --------------------------- Session::rx_loop -------------------------- *)
(* The reply channel is open while the aggregator owns the receiver. *)
ReplyOpen == aggpc = "run"

(* reply_channel.send(SessionReply::new(self.source, buf)); the loop       *)
(* returns Err(ConnectionAborted) when the channel is closed.  rsid and rdata record the *)
(* egress receive the reply stems from (0, "none": from no receive).       *)
PushReply(sid, data, rsid, rdata) ==
  IF ReplyOpen
  THEN /\ replyChan' = Append(replyChan,
              [source |-> sessSrc[sid], data |-> data, rsid |-> rsid, rdata |-> rdata])
       /\ UNCHANGED rxpc
  ELSE /\ rxpc' = [rxpc EXCEPT ![sid] = "failed"]
       /\ UNCHANGED replyChan

(* timeout(.., recv_buf) yields Ok(Ok(n)) with `data` in buf *)
RxRecvOk(sid, data) ==
  /\ Running /\ rxpc[sid] = "recv" /\ nRx < MaxRxEvents
  /\ nRx' = nRx + 1
  /\ PushReply(sid, data, sid, data)
  /\ UNCHANGED <<dispVars, cacheVars, cntVars, sessSrc, txVars, aggpc, aggResult,
                 mainVars, dgHist, written, cls>>

(* timeout(.., recv_buf) yields Ok(Err(err)): Terminate returns the error; *)
(* Continue leaves the `if let` and falls through to reply_channel.send    *)
(* with the still-empty buf.                                               *)
RxRecvErr(sid, kind) ==
  /\ Running /\ rxpc[sid] = "recv"
  /\ handle_io_error(kind) = "Continue" => nRx < MaxRxEvents
  /\ IF handle_io_error(kind) = "Terminate"
     THEN /\ rxpc' = [rxpc EXCEPT ![sid] = "failed"]
          /\ UNCHANGED <<replyChan, nRx>>
     ELSE /\ nRx' = nRx + 1
          /\ PushReply(sid, "", 0, "none")
  /\ UNCHANGED <<dispVars, cacheVars, cntVars, sessSrc, txVars, aggpc, aggResult,
                 mainVars, dgHist, written, cls>>

(* timeout(.., recv_buf) yields Err(Elapsed): return Ok(()) *)
RxTimeout(sid) ==
  /\ Running /\ rxpc[sid] = "recv"
  /\ rxpc' = [rxpc EXCEPT ![sid] = "exit"]
  /\ UNCHANGED <<dispVars, cacheVars, cntVars, sessSrc, txVars, aggVars, nRx,
                 mainVars, dgHist, written, cls>>

(* ------------------------ aggregator (tx_loop) ------------------------- *)
(* reply_channel_rx.recv() yields Some(reply); send_to completes with      *)
(* `outcome`.  Returning the error drops the receiver.                     *)
AggWrite(outcome) ==
  /\ Running /\ aggpc = "run" /\ replyChan # <<>>
  /\ LET r == Head(replyChan) IN
     IF outcome = "Ok"
     THEN /\ written' = written \cup {[dest |-> r.source, data |-> r.data,
                                        rsid |-> r.rsid, rdata |-> r.rdata]}
          /\ replyChan' = Tail(replyChan)
          /\ UNCHANGED <<aggpc, aggResult>>
     ELSE IF handle_io_error(outcome) = "Terminate"
     THEN /\ aggpc' = "done" /\ aggResult' = outcome
          /\ replyChan' = <<>>
          /\ UNCHANGED written
     ELSE /\ replyChan' = Tail(replyChan)
          /\ UNCHANGED <<aggpc, aggResult, written>>
  /\ UNCHANGED <<dispVars, cacheVars, cntVars, sessSrc, txVars, rxVars, nRx,
                 mainVars, dgHist, cls>>

(* reply_channel_rx.recv() yields None: the dispatcher's sender and every  *)
(* rx loop's clone are dropped.                                            *)
AggClosed ==
  /\ Running /\ aggpc = "run" /\ replyChan = <<>>
  /\ dpc = "done" /\ \A i \in Sessions : rxpc[i] # "recv"
  /\ aggpc' = "done" /\ aggResult' = "Ok"
  /\ UNCHANGED <<dispVars, cacheVars, cntVars, sessSrc, txVars, rxVars, replyChan,
                 nRx, mainVars, dgHist, written, cls>>

(* -------------------------------- main --------------------------------- *)
(* rx_task.await??; tx_task.await??; Ok(()).  When main returns the        *)
(* runtime is dropped: every task is abandoned, the cache, the queues and  *)
(* the reply channel are gone and what was queued is never sent.           *)
MainJoin ==
  /\ Running
  /\ IF mainpc = "await_rx"
     THEN /\ dpc = "done"
          /\ IF dResult = "Ok"
             THEN mainpc' = "await_tx" /\ UNCHANGED exitErr
             ELSE mainpc' = "exited" /\ exitErr' = <<"disp", dResult>>
     ELSE /\ aggpc = "done"
          /\ mainpc' = "exited"
          /\ exitErr' = IF aggResult = "Ok" THEN <<"main", "Ok">> ELSE <<"agg", aggResult>>
  /\ IF mainpc' = "exited"
     THEN /\ cache' = [s \in Sources |-> 0]
          /\ txpc' = [i \in Sessions |-> IF txpc[i] = "none" THEN "none" ELSE "done"]
          /\ rxpc' = [i \in Sessions |-> IF rxpc[i] = "none" THEN "none" ELSE "done"]
          /\ queue' = [i \in Sessions |-> <<>>]
          /\ replyChan' = <<>>
          /\ fate' = [d \in DgIds |-> IF fate[d] = "queued" THEN "discarded" ELSE fate[d]]
     ELSE UNCHANGED <<cache, txVars, rxVars, replyChan, fate>>
  /\ UNCHANGED <<dispVars, lock, cntVars, sessSrc, aggpc, aggResult, nRx, dgSid,
                 attempts, sentLog, written, cls>>

(* ---------------------------- specification ---------------------------- *)
(* Sources the next ingress datagram may come from.  SessionSource values  *)
(* are interchangeable, so the source of the first datagram is named s1.   *)
Arriving ==
  IF \A d \in DgIds : fate[d] \in {"none", "readerr"} THEN {"s1"} ELSE Sources

DispatcherStep ==
  \/ \E s \in Arriving : DispatcherRecvOk(s)
  \/ \E k \in IoErrKinds : DispatcherRecvErr(k)
  \/ DispatcherNewFail
  \/ DispatcherSpawn
  \/ DispatcherInsert
  \/ DispatcherPush

TxStep(sid) ==
  \/ \E o \in {"Ok"} \cup SendErrKinds : TxSend(sid, o)
  \/ TxTimeout(sid)
  \/ TxClosed(sid)

RxStep(sid) ==
  \/ \E data \in Payloads : RxRecvOk(sid, data)
  \/ \E k \in IoErrKinds : RxRecvErr(sid, k)
  \/ RxTimeout(sid)

AggStep ==
  \/ \E o \in {"Ok"} \cup IoErrKinds : AggWrite(o)
  \/ AggClosed

Next ==
  \/ DispatcherStep
  \/ \E sid \in Sessions : TxStep(sid)
  \/ \E sid \in Sessions : RxStep(sid)
  \/ \E task \in Tasks : WriteRemove(task)
  \/ AggStep
  \/ MainJoin

Spec == Init /\ [][Next]_vars

(* The proxy while the backend is silent: nothing arrives on an egress     *)
(* socket, so an rx loop ends by its deadline or by a fatal receive error, *)
(* no reply is queued and the aggregator ends only when its channel closes.*)
FatalIoErrKinds == {k \in IoErrKinds : handle_io_error(k) = "Terminate"}

SilentRxStep(sid) ==
  \/ \E k \in FatalIoErrKinds : RxRecvErr(sid, k)
  \/ RxTimeout(sid)

SilentNext ==
  \/ DispatcherStep
  \/ \E sid \in Sessions : TxStep(sid)
  \/ \E sid \in Sessions : SilentRxStep(sid)
  \/ \E task \in Tasks : WriteRemove(task)
  \/ AggClosed
  \/ MainJoin

SilentSpec == Init /\ [][SilentNext]_vars

(* Scheduling: tokio polls every spawned task that can make progress, a    *)
(* deadline that stays armed fires, and an I/O call that was started       *)
(* completes.  What the peers send (ingress datagrams, backend replies,    *)
(* socket errors on a receive) is not forced.                              *)
DispatcherProg ==
  \/ DispatcherNewFail
  \/ DispatcherSpawn
  \/ DispatcherInsert
  \/ DispatcherPush

Fairness ==
  /\ WF_vars(DispatcherProg)
  /\ \A sid \in Sessions : WF_vars(TxStep(sid)) /\ WF_vars(RxTimeout(sid))
  /\ \A task \in Tasks : WF_vars(WriteRemove(task))
  /\ WF_vars(AggStep)
  /\ WF_vars(MainJoin)

FairSpec == Spec /\ Fairness

(* --------------------- classifier harness ------------------------------ *)
(* handle_io_error applied to one io::Error drawn from ErrorKinds x Msgs.  *)
ClsInit ==
  /\ InitProxy
  /\ cls \in [in : [kind : ErrorKinds, msg : Msgs], action : {"none"}, out : {NoError}]

Classify ==
  /\ cls.action = "none"
  /\ cls' = [cls EXCEPT !.action = handle_io_error(cls.in.kind),
                        !.out = IF handle_io_error(cls.in.kind) = "Terminate"
                                THEN TerminateErr(cls.in) ELSE NoError]
  /\ UNCHANGED <<dispVars, cacheVars, cntVars, sessSrc, txVars, rxVars, aggVars,
                 nRx, mainVars, dgHist, written>>

ClsNext == Classify

ClassifierSpec == ClsInit /\ [][ClsNext]_vars

(* ============================== claims ================================= *)
LoopExited(pc) == pc \in {"exit", "failed", "done"}

(* A Session exists from its construction until both loops have exited. *)
SessionExists(i) ==
  /\ txpc[i] # "none"
  /\ ~(LoopExited(txpc[i]) /\ LoopExited(rxpc[i]))

(* Source of a datagram that was pushed onto a session queue. *)
DgSource(d) == sessSrc[dgSid[d]]

InQueue(d) == \E i \in Sessions : d \in SeqToSet(queue[i])

(* C1: at any time at most one Session exists for each SourceEndpoint,    *)
(* a Session existing from its construction until both of its loops have  *)
(* exited.                                                                 *)
C1_AtMostOneSessionPerSource ==
  \A i, j \in Sessions :
    (SessionExists(i) /\ SessionExists(j) /\ sessSrc[i] = sessSrc[j]) => i = j

(* C2: when the dispatcher's push fails because the tx loop is gone, the   *)
(* dispatcher removes the cache entry of that source and goes back to      *)
(* reading the ingress socket.                                             *)
C2_PushFailureRemovesAndContinues ==
  \A s \in Sources :
    (dpc = "remove" /\ dsrc = s) ~> (dpc = "recv" /\ cache[s] = 0)

(* C3: two datagrams of one source that are both sent on an egress socket  *)
(* are sent in the order the dispatcher received them.                     *)
C3_PerSourceFifo ==
  \A m, n \in 1..Len(sentLog) :
    (m < n /\ DgSource(sentLog[m]) = DgSource(sentLog[n]))
      => sentLog[m] < sentLog[n]

SendFates == {"Ok"} \cup SendErrKinds

(* C4: every datagram pushed onto a session queue is handed to the egress  *)
(* send at most once, and ends as exactly one of sent, dropped after a     *)
(* send error, or never sent because the tx loop ended.                    *)
C4_NoDuplication ==
  \A d \in DgIds :
    /\ attempts[d] <= 1
    /\ Cardinality({m \in 1..Len(sentLog) : sentLog[m] = d}) <= 1
    /\ (fate[d] = "Ok") <=> (\E m \in 1..Len(sentLog) : sentLog[m] = d)
    /\ fate[d] \in SendFates => attempts[d] = 1 /\ ~InQueue(d)
    /\ fate[d] = "discarded" => attempts[d] = 0 /\ ~InQueue(d)
    /\ fate[d] = "queued" => attempts[d] = 0 /\ d \in SeqToSet(queue[dgSid[d]])
    /\ (dgSid[d] # 0 /\ LoopExited(txpc[dgSid[d]]))
         => fate[d] \in SendFates \cup {"discarded"}

(* a send error was classified Continue: the datagram is gone after one    *)
(* attempt, the loop that dropped it is still running and has sent the     *)
(* next datagram                                                           *)
C4_Witness ==
  \E d, e \in DgIds :
    /\ fate[d] = "Interrupted" /\ attempts[d] = 1
    /\ d < e /\ dgSid[e] = dgSid[d] /\ fate[e] = "Ok"
    /\ txpc[dgSid[d]] = "recv"

(* C5: once no more datagrams arrive, the tx loop and the rx loop of every *)
(* cached session end and the cache entry is removed (or the process has   *)
(* exited).                                                                *)
C5_IdleEviction ==
  /\ \A i \in Sessions : (txpc[i] = "recv") ~> (txpc[i] # "recv")
  /\ \A i \in Sessions : (rxpc[i] = "recv") ~> (rxpc[i] # "recv")
  /\ \A s \in Sources : (cache[s] # 0) ~> (cache[s] = 0)

(* C6: every datagram written on the ingress socket stems from a receive   *)
(* on the egress socket of a session, is addressed to that session's       *)
(* source and carries the bytes that were received.                        *)
C6_ReplyRouting ==
  \A w \in written :
    /\ w.rsid # 0
    /\ w.dest = sessSrc[w.rsid]
    /\ w.data = w.rdata

C8_AggregatorErrorExitsProcess ==
  \A k \in IoErrKinds :
    (aggpc = "done" /\ aggResult = k)
      ~> \/ mainpc = "exited" /\ exitErr = <<"agg", k>>
         \/ dpc \in {"done", "remove"}
         \/ nextDg = MaxDatagrams

(* A loop of session i returns an error. *)
FatalReturn(i) ==
  \/ txpc[i] = "recv" /\ txpc'[i] = "failed"
  \/ rxpc[i] = "recv" /\ rxpc'[i] = "failed"

(* A task of session i, whose loop returned an error, runs its remove and  *)
(* ends.                                                                   *)
FatalExitHandled(i) ==
  /\ mainpc' # "exited"
  /\ \/ txpc[i] = "failed" /\ txpc'[i] = "done"
     \/ rxpc[i] = "failed" /\ rxpc'[i] = "done"

OthersUntouched(i) ==
  /\ \A t \in Sources \ {sessSrc[i]} : cache'[t] = cache[t]
  /\ \A j \in Sessions :
       sessSrc[j] # sessSrc[i] =>
         /\ txpc'[j] = txpc[j] /\ rxpc'[j] = rxpc[j] /\ queue'[j] = queue[j]
         /\ sessSrc'[j] = sessSrc[j]
  /\ dpc' = dpc /\ aggpc' = aggpc /\ mainpc' = mainpc

BackendDown(i) ==
  /\ nRx = 0
  /\ \E d \in DgIds : dgSid[d] = i /\ fate[d] = "ConnectionRefused"
  /\ \A d \in DgIds : (dgSid[d] = i /\ attempts[d] > 0) => fate[d] = "ConnectionRefused"

(* The step in which a send is refused leaves the loop waiting for the     *)
(* next datagram, with the refused datagram gone after its one attempt.    *)
RefusedIsSwallowed ==
  \A d \in DgIds :
    (fate[d] # "ConnectionRefused" /\ fate'[d] = "ConnectionRefused") =>
      /\ txpc'[dgSid[d]] = "recv"
      /\ attempts'[d] = 1
      /\ d \notin SeqToSet(queue'[dgSid[d]])
      /\ sentLog' = sentLog

(* The tx loop of session i returns. *)
TxReturns(i) == txpc[i] = "recv" /\ txpc'[i] \in {"exit", "failed"}

(* C10 as stated: a refused send is swallowed and the datagram dropped,    *)
(* and with the backend down the tx loop ends only by its idle timeout     *)
(* (its deadline elapses while the queue is open and empty).               *)
C10_RefusedSwallowedEndsByTimeout ==
  [][/\ RefusedIsSwallowed
     /\ \A i \in Sessions :
          (TxReturns(i) /\ BackendDown(i)')
            => (txpc'[i] = "exit" /\ SenderAlive(i))]_vars

(* C10 amended: a refused send is swallowed and the datagram dropped, and  *)
(* with the backend down the tx loop ends only by its idle timeout or by   *)
(* finding its queue closed and drained, never out of a send, so that it   *)
(* returns Ok.                                                             *)
C10_RefusedSwallowedEndsCleanly ==
  [][/\ RefusedIsSwallowed
     /\ \A i \in Sessions :
          (TxReturns(i) /\ BackendDown(i)')
            => (txpc'[i] = "exit" /\ queue[i] = <<>>)]_vars

(* with the backend down a tx loop has swallowed a refused send, kept      *)
(* running and then returned on its idle timeout (its sender is still in   *)
(* the cache)                                                              *)
C10_Witness ==
  \E i \in Sessions :
    /\ BackendDown(i) /\ txpc[i] = "exit" /\ rxpc[i] = "recv"
    /\ cache[sessSrc[i]] = i

(* The dispatcher's step on a recoverable ingress read error. *)
RecoverableReadError ==
  \E d \in DgIds : fate[d] = "none" /\ fate'[d] = "readerr"

(* The dispatcher's step on a fatal ingress read error. *)
FatalReadError == dpc = "recv" /\ dpc' = "done"

(* The dispatcher has returned an error: main, which awaits the           *)
(* dispatcher's task first, is about to return that error or has done so.  *)
DispatcherErrorEndsProcess ==
  dpc = "done" =>
    /\ handle_io_error(dResult) = "Terminate"
    /\ \/ mainpc = "await_rx" /\ ENABLED MainJoin
       \/ mainpc = "exited" /\ exitErr = <<"disp", dResult>>

(* C11: on an ingress read error the classifier decides.  A fatal error    *)
(* ends the dispatcher with that error, and main's next step is to return  *)
(* that error, which ends the process; a recoverable error changes neither *)
(* the session cache nor any session queue nor any loop, and the           *)
(* dispatcher is at its next read with the cache lock free.                *)
C11_IngressReadError ==
  [][/\ FatalReadError => UNCHANGED <<cache, queue, txpc, rxpc>>
     /\ DispatcherErrorEndsProcess'
     /\ (dpc = "done" /\ mainpc = "await_rx" /\ mainpc' # mainpc)
          => (mainpc' = "exited" /\ exitErr' = <<"disp", dResult>>)
     /\ RecoverableReadError =>
          (/\ dpc = "recv" /\ dpc' = "recv" /\ lock' = "free"
           /\ UNCHANGED <<cache, queue, txpc, rxpc, nextSid, sessSrc, replyChan,
                          dResult, mainpc>>)]_vars

(* after a recoverable read error the dispatcher has read a datagram and   *)
(* queued it on a session; later it ended on a fatal read error and the    *)
(* process returned that error                                             *)
C11_Witness ==
  /\ \E d, e \in DgIds : d < e /\ fate[d] = "readerr" /\ dgSid[e] # 0
  /\ dpc = "done" /\ mainpc = "exited" /\ exitErr = <<"disp", dResult>>

(* The dispatcher's step that reads a datagram from source s. *)
ReadsFrom(s) == dpc = "recv" /\ dbuf' # 0 /\ dsrc' = s

(* The dispatcher's step that constructs a session and spawns its loops. *)
Constructs == nextSid' # nextSid

ConstructionFails(d) == fate[d] = "read" /\ fate'[d] = "nosession"

(* C13: when Session::new fails for a datagram of a source without cache   *)
(* entry, the step leaves the cache as it was (no entry for that source),  *)
(* constructs no session and spawns no loop, queues nothing, releases the  *)
(* write guard and puts the dispatcher at its next read; the datagram is   *)
(* never queued or sent afterwards.                                        *)
C13_ConstructionFailureDropsDatagram ==
  [][/\ \A d \in DgIds :
          ConstructionFails(d) =>
            (/\ cache[dsrc] = 0 /\ cache' = cache
             /\ lock = "disp" /\ lock' = "free"
             /\ dpc' = "recv"
             /\ UNCHANGED <<nextSid, sessSrc, txpc, rxpc, queue, dgSid, attempts,
                            sentLog, replyChan>>)
     /\ \A d \in DgIds :
          fate[d] = "nosession" =>
            (/\ fate'[d] = "nosession" /\ dgSid'[d] = 0 /\ attempts'[d] = 0
             /\ \A i \in Sessions : d \notin SeqToSet(queue'[i]))]_vars

(* Session::new failed for one datagram, and the dispatcher went on to     *)
(* build a session for the next one and queue it                           *)
C13_Witness ==
  \E d, e \in DgIds :
    /\ d < e /\ fate[d] = "nosession" /\ fate[e] = "queued"
    /\ cache[DgSource(e)] = dgSid[e] /\ lock = "free" /\ dpc = "recv"

(* Session i has been inserted into the cache at some time. *)
Inserted(i) == txpc[i] # "none" /\ ~(dpc = "insert" /\ dsid = i)

InCache(i) == \E s \in Sources : cache[s] = i

(* A spawned session task has not ended: its loop runs, or has returned    *)
(* and the task has yet to run its remove.                                 *)
TaskLive(pc) == pc \in {"recv", "exit", "failed"}

(* C14: a session that was inserted is in the cache if and only if at      *)
(* least one of its two loops is still running (a loop counting as running *)
(* until its task has performed the removal).                              *)
C14_CachedIffLoopRunning ==
  \A i \in Sessions :
    Inserted(i) => (InCache(i) <=> (TaskLive(txpc[i]) \/ TaskLive(rxpc[i])))

(* A task of session i runs its remove and ends. *)
TaskRemoves(i) ==
  /\ mainpc' # "exited"
  /\ \/ txpc[i] \in {"exit", "failed"} /\ txpc'[i] = "done"
     \/ rxpc[i] \in {"exit", "failed"} /\ rxpc'[i] = "done"

(* C15: the removal a session task performs when its loop has exited       *)
(* removes at most the entry of its own session: an entry that holds       *)
(* another session, created later for the same source, stays.              *)
C15_RemovesOnlyOwnEntry ==
  [][\A i \in Sessions :
       TaskRemoves(i) =>
         \A s \in Sources : cache'[s] # cache[s] => cache[s] = i]_vars

(* C16: every Reply on the reply channel stems from a successful receive   *)
(* on an egress socket and carries what was received: an iteration of the  *)
(* rx loop whose receive failed with a recoverable error pushes nothing.   *)
C16_NoReplyOnRecoverableError ==
  \A m \in 1..Len(replyChan) :
    /\ replyChan[m].rsid # 0
    /\ replyChan[m].data = replyChan[m].rdata

(* C17: once one loop of a session has exited, eventually its cache entry  *)
(* is gone, the peer loop has ended too and both tasks have finished: the  *)
(* session is fully destroyed (or the process has exited).                 *)
C17_PeerLoopEventuallyEnds ==
  \A i \in Sessions :
    (LoopExited(txpc[i]) \/ LoopExited(rxpc[i]))
      ~> (txpc[i] = "done" /\ rxpc[i] = "done" /\ ~InCache(i))

(* C18: the dispatcher holds no write guard on the session cache when it   *)
(* pushes a datagram onto a session queue, nor when it handles a failed    *)
(* push.                                                                   *)
C18_LockReleasedBeforePush ==
  dpc \in {"push", "remove"} => lock # "disp"

(* The task holds the write guard of the cache lock. *)
Holds(task) == task[2] = "disp" /\ lock = "disp"

(* C19: no task waits for the write guard while holding it itself, so a    *)
(* requested guard can always still be granted.                            *)
C19_NoSelfDeadlock ==
  \A task \in Tasks : ~(Requesting(task) /\ Holds(task))

(* A loop of session i has returned while its entry is not yet inserted. *)
EarlyExit(i) ==
  /\ dpc = "insert" /\ dsid = i
  /\ LoopExited(txpc[i]) \/ LoopExited(rxpc[i])

====
